---- MODULE Spec2Model ----
(***************************************************************************)
(* Model of the elevation-tile pipeline of download_dem.py:                *)
(*   png_to_elevation  (pixel decoding),                                   *)
(*   TileDownloader    (download_one / download_all, disk cache),          *)
(*   create_geotiff    (tile range, mosaic assembly, crop, raster output), *)
(*   main              (arguments, confirmation, exit code),               *)
(* and of the layer generator of terrain_layering.py:                      *)
(*   get_levels, extract_contours (region, contours kept), _rdp_simplify,  *)
(*   generate_all.                                                         *)
(*                                                                         *)
(* Elevations are carried as integers in hundredths of a metre: the code   *)
(* multiplies the 24-bit pixel value by 0.01 in float32, which is          *)
(* injective on the 2^24 pixel values, so the integer identifies the float.*)
(***************************************************************************)
EXTENDS Integers, Sequences, FiniteSets, TLC

(***************************************************************************)
(* Bounds of the model.                                                    *)
(***************************************************************************)
\* byte samples are taken within ByteRadius of 0, 128 and 255
ByteRadius == 1

\* cells of one tile grid (the code's tiles are 256 x 256)
NCells == 2
\* tiles of the request handed to download_all by create_geotiff
NTiles == 2
\* width of the worker pool (max_workers)
MaxWorkers == 2
\* zoom level of the tile grid in the crop computation (at most 4)
Zoom == 2
\* longitude resolution: units per mosaic pixel
LonSub == 2
\* the DEM's elevations reach MaxElevSteps metres and a half
MaxElevSteps == 2
\* columns of the elevation grid whose regions are traced (it has 3 rows)
GridW == 3
\* points of the polylines handed to _rdp_simplify
MaxPts == 4
\* the tolerances epsilon are 0, 0.5, ..., MaxEps2 / 2 pixels
MaxEps2 == 3
\* levels of the generators whose generate_all is run
MaxLayers == 3
\* significand bits of the floats of the get_levels loop (the code's have 53)
MantissaBits == 3

VARIABLES
    rgb,        \* png_to_elevation: the pixel <<R, G, B>> being decoded
    elev,       \* png_to_elevation: the decoded elevation, or Undecoded
    remote,     \* per source, the responses session.get can produce
    tiles,      \* the tile list given to download_all (tile x indices)
    dirs,       \* cache directories that exist (cache.parent of each tile)
    cache,      \* per tile, the cache file: absent, corrupt or a saved grid
    task,       \* per submitted tile, the download_one activation
    future,     \* per submitted tile, the future of its task
    lastReturn, \* per tile, the composite last computed and returned
    mainpc,     \* position of the caller (create_geotiff / download_all)
    results,    \* download_all: results dict
    consumed,   \* download_all: futures already yielded by as_completed
    elevation,  \* create_geotiff: the mosaic
    cropped,    \* create_geotiff: elevation after the crop (line 236 rebinds it)
    written,    \* create_geotiff: the output raster was written in this run
    outcome,    \* create_geotiff: return value of this run
    cli,        \* main of download_dem.py: arguments, confirmation, exit code
    req,        \* create_geotiff: <<lat_min, lat_max, lon_min, lon_max>> as passed
    geo,        \* create_geotiff: tile range, mosaic size and crop window
    croppc,     \* create_geotiff: position in the crop computation
    gen,        \* TerrainLayerGenerator: min_elev, max_elev, interval, base_elev
    genpc,      \* TerrainLayerGenerator: position of the caller
    levels,     \* the list returned by get_levels
    grid,       \* TerrainLayerGenerator: self.elevation, per cell
    traced,     \* per level handed to extract_contours, the region it traced
    rdp,        \* _rdp_simplify: its arguments, its result and its position
    ga,         \* generate_all: contour_cache, loop position, calls made so far
    loop,       \* get_levels: v, the list built so far, position in the loop
    xc          \* extract_contours: a traced polyline and what is returned for it

decodeVars == <<rgb, elev>>
envVars == <<remote, tiles>>
tileVars == <<dirs, cache, task, future, lastReturn>>
mainVars == <<mainpc, results, consumed, elevation, cropped, written, outcome, cli>>
cropVars == <<req, geo, croppc>>
layerVars == <<gen, genpc, levels, grid, traced, rdp, ga, loop, xc>>
vars == <<rgb, elev, remote, tiles, dirs, cache, task, future, lastReturn,
          mainpc, results, consumed, elevation, cropped, written, outcome, cli,
          req, geo, croppc, gen, genpc, levels,
          grid, traced, rdp, ga, loop, xc>>

(***************************************************************************)
(* png_to_elevation                                                        *)
(***************************************************************************)
\* np.nan: the no-data marker, an integer outside the decoded range
NaN == 16777216

\* elev before png_to_elevation has run
Undecoded == NaN + 1

\* x == 8388608 (RGB = 128, 0, 0) is no-data
NoDataPixel == 8388608

\* a plausible slip: the blue byte is left out of x
PixelValue_NoBlue(p) == p[1] * 65536 + p[2] * 256

\* x = r * 65536 + g * 256 + b; on uint32 bytes this is at most 16777215 and
\* cannot wrap
PixelValue(p) == p[1] * 65536 + p[2] * 256 + p[3]

\* a plausible slip: the no-data overwrite (elev[x == 8388608] = nan) is lost
PixelToElevation_NoMask(x) ==
    IF x < 8388608 THEN x ELSE x - 16777216

\* np.where(x < 8388608, x * 0.01, (x - 16777216) * 0.01), then
\* elev[x == 8388608] = nan.  Result in hundredths of a metre.
PixelToElevation(x) ==
    LET e == IF x < 8388608 THEN x ELSE x - 16777216
    IN  IF x = NoDataPixel THEN NaN ELSE e

NoGeo == [x_min |-> 0, y_min |-> 0, x_max |-> 0, y_max |-> 0,
          width |-> 0, height |-> 0,
          col_start |-> 0, col_end |-> 0, row_start |-> 0, row_end |-> 0]

\* nothing of the crop computation is running
IdleCrop ==
    /\ req = <<0, 0, 0, 0>>
    /\ geo = NoGeo
    /\ croppc = "off"

NoGen == [min_elev |-> 0, max_elev |-> 0, interval |-> 1,
          base_given |-> FALSE, base_elevation |-> 0, base_elev |-> 0]

NoRdp == [points |-> <<>>, eps2 |-> 0, result |-> <<>>, pc |-> "off"]

NoGa == [pc |-> "off", topo |-> FALSE, idx |-> 0, cache |-> <<>>,
         extracts |-> <<>>, renders |-> <<>>]

\* get_levels is not running step by step
NoLoop == [pc |-> "off", v |-> 0, acc |-> <<>>]

\* extract_contours is not filtering a polyline
NoXc == [pc |-> "off", raw |-> <<>>, eps2 |-> 0, out |-> <<>>]

\* no TerrainLayerGenerator exists
IdleLayers ==
    /\ gen = NoGen
    /\ genpc = "off"
    /\ levels = <<>>
    /\ grid = <<>>
    /\ traced = <<>>
    /\ rdp = NoRdp
    /\ ga = NoGa
    /\ loop = NoLoop
    /\ xc = NoXc

(***************************************************************************)
(* TileDownloader: sources, responses, layers                              *)
(***************************************************************************)
\* SOURCES, highest priority first
SOURCES == <<"dem5a_png", "dem5b_png", "dem_png">>

SourceIds == 1 .. Len(SOURCES)

\* a data pixel of each source (12.34 m, 83886.07 m, -0.01 m), so that a
\* composite cell tells which source it came from
SourcePixel == <<1234, 8388607, 16777215>>

\* a layer that is None (the source failed)
None == <<>>

\* np.full((256, 256), np.nan): the all-no-data tile grid
AllNaN == [c \in 1 .. NCells |-> NaN]

\* what session.get(url, timeout=10) can lead to
Failure(kind) == [kind |-> kind, px |-> <<>>]
Image(px) == [kind |-> "image", px |-> px]

FailureKinds == {"neterr", "timeout", "http404", "undecodable"}

\* a well-formed image whose grid has another shape than the tile grid
WrongShape(s) == Image([c \in 1 .. (NCells + 1) |-> SourcePixel[s]])

\* every response of source s: any failure, any tile-sized image over
\* {no-data, data}, and an image of the wrong size
RichResponses(s) ==
    {Failure(k) : k \in FailureKinds}
        \cup {Image(px) : px \in [1 .. NCells -> {NoDataPixel, SourcePixel[s]}]}
        \cup {WrongShape(s)}

\* the responses that matter to the batch: only the first source covers the
\* area, and it fails, answers a fully valid tile, or answers a wrong size
CoarseResponses(s) ==
    IF s = 1
    THEN {Failure("neterr"), Image([c \in 1 .. NCells |-> SourcePixel[s]]),
          WrongShape(s)}
    ELSE {Failure("http404")}

\* png_to_elevation over the image
DecodeImage(px) == [c \in 1 .. Len(px) |-> PixelToElevation(px[c])]

\* the element appended to layers for one source: the decoded grid when the
\* request succeeds with status 200 and the payload decodes, None otherwise
LayerOf(r) ==
    IF r.kind \in {"neterr", "timeout"} THEN None        \* except Exception
    ELSE IF r.kind = "http404" THEN None                 \* status_code != 200
    ELSE IF r.kind = "undecodable" THEN None             \* png_to_elevation raises
    ELSE DecodeImage(r.px)

\* a plausible slip: a lower-priority layer overwrites cells already filled
FillCell_Overwrite(r, l) ==
    IF l # NaN THEN l ELSE r

\* mask = isnan(result) & ~isnan(layer); result[mask] = layer[mask]
FillCell(r, l) ==
    IF r = NaN /\ l # NaN THEN l ELSE r

\* not np.any(np.isnan(result))
Filled(g) == \A c \in 1 .. NCells : g[c] # NaN

\* a plausible slip: the loop has no break and goes through every layer
RECURSIVE Composite_NoBreak(_, _)
Composite_NoBreak(res, ls) ==
    IF ls = <<>> THEN [ok |-> TRUE, grid |-> res, rest |-> 0]
    ELSE LET layer == Head(ls)
         IN  IF layer = None THEN Composite_NoBreak(res, Tail(ls))
             ELSE IF Len(layer) # NCells
                  THEN [ok |-> FALSE, grid |-> res, rest |-> Len(Tail(ls))]
             ELSE Composite_NoBreak([c \in 1 .. NCells |-> FillCell(res[c], layer[c])],
                                    Tail(ls))

\* the compositing loop over layers; a layer of another shape makes the
\* masked assignment raise.  rest is the number of layers the loop has not
\* reached when it ends or breaks.
RECURSIVE Composite(_, _)
Composite(res, ls) ==
    IF ls = <<>> THEN [ok |-> TRUE, grid |-> res, rest |-> 0]
    ELSE LET layer == Head(ls)
         IN  IF layer = None THEN Composite(res, Tail(ls))
             ELSE IF Len(layer) # NCells
                  THEN [ok |-> FALSE, grid |-> res, rest |-> Len(Tail(ls))]
             ELSE LET r2 == [c \in 1 .. NCells |-> FillCell(res[c], layer[c])]
                  IN  IF Filled(r2) THEN [ok |-> TRUE, grid |-> r2, rest |-> Len(Tail(ls))]
                      ELSE Composite(r2, Tail(ls))

(***************************************************************************)
(* Cache files and task records                                            *)
(***************************************************************************)
Absent == [st |-> "absent", data |-> <<>>]
Corrupt == [st |-> "corrupt", data |-> <<>>]

\* a plausible slip: a composite without any data is not kept
Saved_DropEmpty(g) ==
    IF g = AllNaN THEN [st |-> "absent", data |-> <<>>] ELSE [st |-> "ok", data |-> g]

Saved(g) == [st |-> "ok", data |-> g]

Tasks == 1 .. Len(tiles)
TileSet == {tiles[k] : k \in Tasks}

\* urls: the requests made so far; used: the layers the compositing loop went
\* through
NoTask == [pc |-> "none", layers |-> <<>>, result |-> <<>>, nreq |-> 0,
           badCache |-> FALSE, fd |-> "closed", urls |-> <<>>, used |-> 0]
Pending == [NoTask EXCEPT !.pc = "pending"]

NoFuture == [kind |-> "none", data |-> <<>>, exc |-> "", via |-> ""]
Returned(g, via) == [kind |-> "value", data |-> g, exc |-> "", via |-> via]
Raised(e) == [kind |-> "exc", data |-> <<>>, exc |-> e, via |-> ""]

Running(k) == task[k].pc \notin {"none", "pending", "done"}

\* sys.exit has not been called
NoExit == 0 - 1

\* create_geotiff is called directly, not through main; rows is ny, the number
\* of tile rows of the request
NoCli == [pc |-> "off", parses |-> TRUE, rows |-> 1, skip_confirm |-> FALSE,
          asked |-> FALSE, answer |-> "", exit |-> NoExit]

\* a plausible slip: a readable entry is not used
CacheReadable_Never(f) == FALSE

\* np.load(cache) succeeds
CacheReadable(f) == f.st = "ok"

(***************************************************************************)
(* download_one, step by step                                              *)
(***************************************************************************)
\* a worker takes the next queued task
TaskStart(k) ==
    /\ task[k].pc = "pending"
    /\ \A j \in Tasks : j < k => task[j].pc # "pending"
    /\ Cardinality({j \in Tasks : Running(j)}) < MaxWorkers
    /\ task' = [task EXCEPT ![k].pc = "mkdir"]
    /\ UNCHANGED <<layerVars, decodeVars, envVars, dirs, cache, future, lastReturn, mainVars, cropVars>>

\* cache.parent.mkdir(parents=True, exist_ok=True)
Mkdir(k) ==
    /\ task[k].pc = "mkdir"
    /\ dirs' = dirs \cup {tiles[k]}
    /\ task' = [task EXCEPT ![k].pc = "exists"]
    /\ UNCHANGED <<layerVars, decodeVars, envVars, cache, future, lastReturn, mainVars, cropVars>>

\* if cache.exists():
Exists(k) ==
    /\ task[k].pc = "exists"
    /\ task' = [task EXCEPT ![k].pc =
                   IF cache[tiles[k]].st # "absent" THEN "load" ELSE "fetch"]
    /\ UNCHANGED <<layerVars, decodeVars, envVars, dirs, cache, future, lastReturn, mainVars, cropVars>>

\* try: return x, y, np.load(cache)  except Exception: (go on to unlink)
Load(k) ==
    /\ task[k].pc = "load"
    /\ LET f == cache[tiles[k]]
       IN  IF CacheReadable(f)
           THEN /\ task' = [task EXCEPT ![k].pc = "done"]
                /\ future' = [future EXCEPT ![k] = Returned(f.data, "cache")]
           ELSE /\ task' = [task EXCEPT ![k].pc = "unlink", ![k].badCache = TRUE]
                /\ UNCHANGED future
    /\ UNCHANGED <<layerVars, decodeVars, envVars, dirs, cache, lastReturn, mainVars, cropVars>>

\* cache.unlink(): raises FileNotFoundError when the file is gone; writers
\* that hold the removed file open keep writing to an unlinked file
Unlink(k) ==
    /\ task[k].pc = "unlink"
    /\ IF cache[tiles[k]].st = "absent"
       THEN /\ task' = [task EXCEPT ![k].pc = "done"]
            /\ future' = [future EXCEPT ![k] = Raised("FileNotFoundError")]
            /\ UNCHANGED cache
       ELSE /\ cache' = [cache EXCEPT ![tiles[k]] = Absent]
            /\ task' = [j \in Tasks |->
                          IF j = k THEN [task[j] EXCEPT !.pc = "fetch"]
                          ELSE IF tiles[j] = tiles[k] /\ task[j].fd = "linked"
                               THEN [task[j] EXCEPT !.fd = "orphan"]
                               ELSE task[j]]
            /\ UNCHANGED future
    /\ UNCHANGED <<layerVars, decodeVars, envVars, dirs, lastReturn, mainVars, cropVars>>

\* the row of the request's tiles: tiles holds the x of a one-row request
TileY == 1

\* a plausible slip: the sources are taken lowest priority first
SourceAt_Reversed(i) == SOURCES[Len(SOURCES) + 1 - i]

\* the i-th src of `for src in self.SOURCES`
SourceAt(i) == SOURCES[i]

\* f"https://cyberjapandata.gsi.go.jp/xyz/{src}/{zoom}/{x}/{y}.png"
Url(src, zoom, x, y) ==
    <<"https://cyberjapandata.gsi.go.jp/xyz", src, zoom, x, y, ".png">>

\* one iteration of `for src in self.SOURCES`: session.get and decode
Fetch(k) ==
    /\ task[k].pc = "fetch"
    /\ LET s == Len(task[k].layers) + 1
       IN  \E r \in remote[s] :
             task' = [task EXCEPT
                        ![k].layers = Append(@, LayerOf(r)),
                        ![k].nreq = @ + 1,
                        ![k].urls = Append(@, Url(SourceAt(s), Zoom, tiles[k], TileY)),
                        ![k].pc = IF s = Len(SOURCES) THEN "composite" ELSE "fetch"]
    /\ UNCHANGED <<layerVars, decodeVars, envVars, dirs, cache, future, lastReturn, mainVars, cropVars>>

\* result = np.full(..., nan); for layer in layers: ... (may raise)
Compose(k) ==
    /\ task[k].pc = "composite"
    /\ LET c == Composite(AllNaN, task[k].layers)
       IN  IF c.ok
           THEN /\ task' = [task EXCEPT ![k].pc = "save", ![k].result = c.grid,
                                        ![k].used = Len(task[k].layers) - c.rest]
                /\ UNCHANGED future
           ELSE /\ task' = [task EXCEPT ![k].pc = "done",
                                        ![k].used = Len(task[k].layers) - c.rest]
                /\ future' = [future EXCEPT ![k] = Raised("shape")]
    /\ UNCHANGED <<layerVars, decodeVars, envVars, dirs, cache, lastReturn, mainVars, cropVars>>

\* np.save(cache, result), opening: the file is created or truncated
SaveOpen(k) ==
    /\ task[k].pc = "save"
    /\ cache' = [cache EXCEPT ![tiles[k]] = Corrupt]
    /\ task' = [task EXCEPT ![k].pc = "saving", ![k].fd = "linked"]
    /\ UNCHANGED <<layerVars, decodeVars, envVars, dirs, future, lastReturn, mainVars, cropVars>>

\* np.save(cache, result), written out and closed; return x, y, result
SaveClose(k) ==
    /\ task[k].pc = "saving"
    /\ cache' = IF task[k].fd = "linked"
                THEN [cache EXCEPT ![tiles[k]] = Saved(task[k].result)]
                ELSE cache
    /\ task' = [task EXCEPT ![k].pc = "done", ![k].fd = "closed"]
    /\ future' = [future EXCEPT ![k] = Returned(task[k].result, "net")]
    /\ lastReturn' = [lastReturn EXCEPT ![tiles[k]] = task[k].result]
    /\ UNCHANGED <<layerVars, decodeVars, envVars, dirs, mainVars, cropVars>>

\* the environment damages a stored cache file
CorruptCache(t) ==
    /\ cache[t].st = "ok"
    /\ cache' = [cache EXCEPT ![t] = Corrupt]
    /\ UNCHANGED <<layerVars, decodeVars, envVars, dirs, task, future, lastReturn, mainVars, cropVars>>

(***************************************************************************)
(* download_all and create_geotiff                                         *)
(***************************************************************************)
\* the first and last tile column of the request
XMin == 1
XMax == Len(tiles)

\* a plausible slip: a task that raised leaves no entry in results
CollectEntry_Skip(res, k) ==
    IF future[k].kind = "value"
    THEN [t \in DOMAIN res \cup {tiles[k]} |->
            IF t = tiles[k] THEN future[k].data ELSE res[t]]
    ELSE res

\* try: _, _, data = f.result(); results[(x, y)] = data
\* except Exception: results[(x, y)] = np.full((256, 256), np.nan)
CollectEntry(res, k) ==
    [t \in DOMAIN res \cup {tiles[k]} |->
        IF t = tiles[k]
        THEN IF future[k].kind = "value" THEN future[k].data ELSE AllNaN
        ELSE res[t]]

\* a plausible slip: download_all returns after the first completed future
JoinReady_First == consumed # {}

\* as_completed(futures) is exhausted: every future was yielded
JoinReady == \A k \in Tasks : k \in consumed

\* a plausible slip: the emptiness test is missing
HasValid_Always(e) == TRUE

\* valid = elevation[~np.isnan(elevation)]; len(valid) != 0
HasValid(e) == \E i \in 1 .. Len(e) : e[i] # NaN

\* elevation = np.full(..., nan), then each tile pasted at its column offset
Mosaic(res) ==
    [i \in 1 .. (XMax - XMin + 1) * NCells |->
        LET tx == XMin + ((i - 1) \div NCells)
            c == ((i - 1) % NCells) + 1
        IN  IF tx \in DOMAIN res THEN res[tx][c] ELSE NaN]

\* download_all: results = {}; every tile is submitted to the pool
Submit ==
    /\ mainpc \in {"idle", "returned"}
    /\ cli.pc = "off" \/ mainpc = "idle"
    /\ task' = [k \in Tasks |-> Pending]
    /\ future' = [k \in Tasks |-> NoFuture]
    /\ results' = <<>>
    /\ consumed' = {}
    /\ elevation' = <<>>
    /\ cropped' = <<>>
    /\ written' = FALSE
    /\ outcome' = "none"
    /\ mainpc' = "collect"
    /\ UNCHANGED <<layerVars, cropVars, decodeVars, envVars, dirs, cache, lastReturn, cli>>

\* one iteration of `for ... in as_completed(futures)`
Collect(k) ==
    /\ mainpc = "collect"
    /\ k \notin consumed
    /\ task[k].pc = "done"
    /\ results' = CollectEntry(results, k)
    /\ consumed' = consumed \cup {k}
    /\ UNCHANGED <<layerVars, cropVars, decodeVars, envVars, tileVars, cli, mainpc, elevation, cropped,
                   written, outcome>>

\* the loop ends, the pool is shut down, download_all returns results
DownloadAllReturn ==
    /\ mainpc = "collect"
    /\ JoinReady
    /\ mainpc' = "joined"
    /\ UNCHANGED <<layerVars, cropVars, decodeVars, envVars, tileVars, cli, results, consumed, elevation,
                   cropped, written, outcome>>

\* create_geotiff pastes the tiles into the mosaic
Assemble ==
    /\ mainpc = "joined"
    /\ elevation' = Mosaic(results)
    /\ mainpc' = "assembled"
    /\ UNCHANGED <<layerVars, cropVars, decodeVars, envVars, tileVars, cli, results, consumed, cropped,
                   written, outcome>>

Min2(a, b) == IF a <= b THEN a ELSE b
Max2(a, b) == IF a >= b THEN a ELSE b

\* col_start = max(0, col_start); col_end = min(width, max(col_end, col_start + 1))
ClampStart(s) == Max2(0, s)
ClampEnd(e, s, dim) == Min2(dim, Max2(e, s + 1))

\* the clamped windows <<col_start, col_end>> of the requests that produce
\* this tile range: lon_min lies in the first tile column and lon_max in the
\* last one, so int() puts col_start in the first tile and col_end in the last
CropWindows(width) ==
    {<<ClampStart(s), ClampEnd(e, ClampStart(s), width)>> :
        s \in 0 .. (NCells - 1), e \in (width - NCells) .. (width - 1)}

\* elevation[row_start:row_end, col_start:col_end] on the one-row mosaic
Crop(e, col_start, col_end) == SubSeq(e, col_start + 1, col_end)

\* create_geotiff from the emptiness test on: return False when the mosaic
\* has no valid pixel, else crop to the window, write the raster and return
\* True.  Nothing between the crop and the write looks at the cropped data
\* except the prints.
EmitOrFail ==
    /\ mainpc = "assembled"
    /\ IF HasValid(elevation)
       THEN \E w \in CropWindows(Len(elevation)) :
              /\ cropped' = Crop(elevation, w[1], w[2])
              /\ written' = TRUE
              /\ outcome' = "True"
       ELSE /\ cropped' = <<>>
            /\ written' = FALSE
            /\ outcome' = "False"
    /\ mainpc' = "returned"
    /\ UNCHANGED <<layerVars, cropVars, decodeVars, envVars, tileVars, cli, results, consumed, elevation>>

TaskStep(k) ==
    \/ TaskStart(k) \/ Mkdir(k) \/ Exists(k) \/ Load(k) \/ Unlink(k)
    \/ Fetch(k) \/ Compose(k) \/ SaveOpen(k) \/ SaveClose(k)

InitDownloader(tl, rem, files) ==
    /\ rgb = <<0, 0, 0>>
    /\ elev = Undecoded
    /\ tiles = tl
    /\ remote = rem
    /\ dirs = {}
    /\ cache \in [{tl[k] : k \in 1 .. Len(tl)} -> files]
    /\ task = [k \in 1 .. Len(tl) |-> NoTask]
    /\ future = [k \in 1 .. Len(tl) |-> NoFuture]
    /\ lastReturn = [t \in {tl[k] : k \in 1 .. Len(tl)} |-> None]
    /\ mainpc = "idle"
    /\ results = <<>>
    /\ consumed = {}
    /\ elevation = <<>>
    /\ cropped = <<>>
    /\ written = FALSE
    /\ outcome = "none"
    /\ cli = NoCli
    /\ IdleCrop
    /\ IdleLayers

\* nothing of the pipeline is running
IdlePipeline ==
    /\ tiles = <<>>
    /\ remote = [s \in SourceIds |-> {}]
    /\ dirs = {}
    /\ cache = <<>>
    /\ task = <<>>
    /\ future = <<>>
    /\ lastReturn = <<>>
    /\ mainpc = "off"
    /\ results = <<>>
    /\ consumed = {}
    /\ elevation = <<>>
    /\ cropped = <<>>
    /\ written = FALSE
    /\ outcome = "none"
    /\ cli = NoCli

\* create_geotiff over a request of NTiles tiles, run after run on one cache
Init == InitDownloader([k \in 1 .. NTiles |-> k],
                       [s \in SourceIds |-> CoarseResponses(s)], {Absent})

\* create_geotiff over a one-tile request, with every kind of response
InitTile == InitDownloader(<<1>>, [s \in SourceIds |-> RichResponses(s)], {Absent})

Next ==
    \/ \E k \in Tasks : TaskStep(k)
    \/ \E t \in TileSet : CorruptCache(t)
    \/ Submit
    \/ \E k \in Tasks : Collect(k)
    \/ DownloadAllReturn
    \/ Assemble
    \/ EmitOrFail

Spec == Init /\ [][Next]_vars

SpecTile == InitTile /\ [][Next]_vars

(***************************************************************************)
(* main of download_dem.py: arguments, confirmation, exit code             *)
(***************************************************************************)
\* if num_tiles > 100 and not skip_confirm
ConfirmLimit == 100

\* ny of the request: one row, and the counts around the limit for a request
\* one tile wide.  The model downloads the first row.
RowSamples == {1, ConfirmLimit, ConfirmLimit + 1}

\* what the user types at the prompt
AnswerSamples == {"y", "Y", "n", ""}

\* input(...).lower()
Lower(a) == IF a = "Y" THEN "y" ELSE a

\* the first source answers the tile with or without gaps, or fails; the
\* others do not cover it
CliResponses(s) ==
    IF s = 1
    THEN {Failure("timeout")}
            \cup {Image(px) : px \in [1 .. NCells -> {NoDataPixel, SourcePixel[s]}]}
    ELSE {Failure("http404")}

\* python download_dem.py --lat .. --lon .. [-y] for a request one tile wide;
\* the tile's cache file is missing, unreadable or left by an earlier run
InitCli ==
    /\ rgb = <<0, 0, 0>>
    /\ elev = Undecoded
    /\ tiles = <<1>>
    /\ remote = [s \in SourceIds |-> CliResponses(s)]
    /\ dirs = {}
    /\ cache \in [{1} -> {Absent, Corrupt, Saved(AllNaN),
                           Saved([c \in 1 .. NCells |-> PixelToElevation(SourcePixel[1])])}]
    /\ task = [k \in {1} |-> NoTask]
    /\ future = [k \in {1} |-> NoFuture]
    /\ lastReturn = [t \in {1} |-> None]
    /\ mainpc = "main"
    /\ results = <<>>
    /\ consumed = {}
    /\ elevation = <<>>
    /\ cropped = <<>>
    /\ written = FALSE
    /\ outcome = "none"
    /\ \E ok, skip \in BOOLEAN, ny \in RowSamples :
         cli = [NoCli EXCEPT !.pc = "start", !.parses = ok, !.rows = ny,
                             !.skip_confirm = skip]
    /\ IdleCrop
    /\ IdleLayers

\* main: the arguments are parsed; on a malformed --lat or --lon the error is
\* printed and sys.exit(1) is called, else create_geotiff is called
ParseArgs ==
    /\ cli.pc = "start"
    /\ cli' = IF cli.parses THEN [cli EXCEPT !.pc = "called"]
              ELSE [cli EXCEPT !.pc = "exited", !.exit = 1]
    /\ UNCHANGED <<layerVars, cropVars, decodeVars, envVars, tileVars, mainpc, results,
                   consumed, elevation, cropped, written, outcome>>

\* num_tiles = nx * ny
NumTiles == Len(tiles) * cli.rows

\* num_tiles > 100 and not skip_confirm
NeedsConfirm == NumTiles > ConfirmLimit /\ ~cli.skip_confirm

\* create_geotiff up to the tile list: the prompt when the request is large,
\* return False unless the answer is y
Confirm ==
    /\ cli.pc = "called"
    /\ IF NeedsConfirm
       THEN \E a \in AnswerSamples :
              /\ cli' = [cli EXCEPT !.pc = "running", !.asked = TRUE, !.answer = a]
              /\ IF Lower(a) # "y"
                 THEN mainpc' = "returned" /\ outcome' = "False"
                 ELSE mainpc' = "idle" /\ outcome' = outcome
       ELSE /\ cli' = [cli EXCEPT !.pc = "running"]
            /\ mainpc' = "idle"
            /\ outcome' = outcome
    /\ UNCHANGED <<layerVars, cropVars, decodeVars, envVars, tileVars, results, consumed,
                   elevation, cropped, written>>

\* main after create_geotiff has returned: sys.exit(1) unless ok; the
\* interpreter exits with 0 when main returns
MainExit ==
    /\ cli.pc = "running"
    /\ mainpc = "returned"
    /\ cli' = [cli EXCEPT !.pc = "exited",
                          !.exit = IF outcome = "True" THEN 0 ELSE 1]
    /\ UNCHANGED <<layerVars, cropVars, decodeVars, envVars, tileVars, mainpc, results,
                   consumed, elevation, cropped, written, outcome>>

NextCli ==
    \/ ParseArgs
    \/ Confirm
    \/ Submit
    \/ \E k \in Tasks : TaskStep(k)
    \/ \E k \in Tasks : Collect(k)
    \/ DownloadAllReturn
    \/ Assemble
    \/ EmitOrFail
    \/ MainExit

SpecCli == InitCli /\ [][NextCli]_vars

\* the user was asked and did not answer y
Declined == cli.asked /\ cli.answer \notin {"y", "Y"}

\* C22: the command exits with 0 exactly when a raster was written and with 1
\* on failure: when the data has no valid pixel (the mosaic, or the raster
\* cropped to the request) and when the user declines the confirmation.  The
\* confirmation is requested only when more than 100 tiles are needed and -y
\* is not given; when the user declines, no tile is fetched and no raster is
\* written.
C22_ExitCodes ==
    /\ cli.asked => (Len(tiles) * cli.rows > 100 /\ ~cli.skip_confirm)
    /\ cli.pc = "exited" =>
          /\ cli.exit \in {0, 1}
          /\ cli.exit = 0 <=> written
          /\ (mainpc = "returned" /\ ~Declined
              /\ \A i \in 1 .. Len(cropped) : cropped[i] = NaN) => cli.exit = 1
          /\ Declined =>
                /\ cli.exit = 1
                /\ ~written
                /\ \A k \in Tasks : task[k] = NoTask

(***************************************************************************)
(* Two download_one tasks on the same tile                                 *)
(***************************************************************************)
\* what a well-behaved source answers: a failure or a tile-sized image
SoundResponses(s) ==
    {Failure("timeout"), Failure("http404")}
        \cup {Image(px) : px \in [1 .. NCells -> {NoDataPixel, SourcePixel[s]}]}

\* download_all over the same tile twice; the content of the sources is
\* fixed, the cache entry is missing or unreadable
InitRace ==
    \E r \in [SourceIds -> UNION {SoundResponses(s) : s \in SourceIds}] :
        /\ \A s \in SourceIds : r[s] \in SoundResponses(s)
        /\ InitDownloader(<<1, 1>>, [s \in SourceIds |-> {r[s]}], {Absent, Corrupt})

NextRace ==
    \/ \E k \in Tasks : TaskStep(k)
    \/ Submit
    \/ \E k \in Tasks : Collect(k)
    \/ DownloadAllReturn

SpecRace == InitRace /\ [][NextRace]_vars

\* the composite of a single call that misses the cache, sources as they are
SequentialComposite ==
    Composite(AllNaN, [s \in SourceIds |-> LayerOf(CHOOSE r \in remote[s] : TRUE)]).grid

(***************************************************************************)
(* Properties of download_one and download_all                             *)
(***************************************************************************)
PostJoin == {"joined", "assembled", "returned"}

\* per cell, the value of the first layer that has data there
PriorityUnion(ls) ==
    [c \in 1 .. NCells |->
        LET has == {i \in 1 .. Len(ls) :
                      ls[i] # None /\ c \in DOMAIN ls[i] /\ ls[i][c] # NaN}
        IN  IF has = {} THEN NaN
            ELSE ls[CHOOSE i \in has : \A j \in has : i <= j][c]]

\* C2: the composite a download_one call computes and returns holds, in every
\* cell, the value of the highest-priority decoded source with data there and
\* no-data where none has data; a first source without gaps decides it alone.
C2_Composite ==
    \A k \in Tasks :
        (future[k].kind = "value" /\ future[k].via = "net") =>
            /\ future[k].data = PriorityUnion(task[k].layers)
            /\ (task[k].layers[1] # None /\ Len(task[k].layers[1]) = NCells
                /\ Filled(task[k].layers[1])) => future[k].data = task[k].layers[1]

\* sources 1 and 2 have disjoint gaps and the result is their union
C2_Witness ==
    \E k \in Tasks :
        /\ future[k].kind = "value" /\ future[k].via = "net"
        /\ task[k].layers[1] = <<PixelToElevation(SourcePixel[1])>> \o
                               [c \in 1 .. (NCells - 1) |-> NaN]
        /\ task[k].layers[2] = <<NaN>> \o
                               [c \in 1 .. (NCells - 1) |->
                                   PixelToElevation(SourcePixel[2])]
        /\ Filled(future[k].data)

\* C3: whatever the sources answer, download_one never raises.
C3_NeverAborts ==
    \A k \in Tasks : future[k].kind # "exc"

\* C4: after download_all has returned, results has exactly the requested
\* tiles as keys; a task that raised, and a task all of whose sources failed,
\* has the all-no-data grid, every other task its returned grid.
C4_TotalMap ==
    mainpc \in PostJoin =>
        /\ DOMAIN results = TileSet
        /\ \A k \in Tasks :
             /\ future[k].kind = "exc" => results[tiles[k]] = AllNaN
             /\ future[k].kind = "value" => results[tiles[k]] = future[k].data
             /\ (future[k].via = "net"
                 /\ \A s \in SourceIds : task[k].layers[s] = None)
                    => results[tiles[k]] = AllNaN

\* one tile raised, another one delivered data, both are in the map
C4_Witness ==
    /\ mainpc = "joined"
    /\ \E k, j \in Tasks :
         /\ future[k].kind = "exc" /\ results[tiles[k]] = AllNaN
         /\ future[j].kind = "value" /\ results[tiles[j]] # AllNaN

\* C5: a download_one call that finds a readable cache entry returns its
\* content, which is the composite last returned for the tile, and makes no
\* request.
C5_CachedReturn ==
    [][\A k \in Tasks :
         (task[k].pc = "load" /\ task'[k].pc # "load"
          /\ cache[tiles[k]].st = "ok") =>
            /\ task'[k].pc = "done"
            /\ future'[k].kind = "value"
            /\ future'[k].data = cache[tiles[k]].data
            /\ future'[k].data = lastReturn[tiles[k]]
            /\ task'[k].nreq = 0]_vars

\* a later call has returned the cached composite without a request
C5_Witness ==
    \E k \in Tasks :
        /\ future[k].kind = "value" /\ future[k].via = "cache"
        /\ task[k].nreq = 0
        /\ future[k].data = lastReturn[tiles[k]]
        /\ future[k].data # AllNaN

\* C6: a call that found its cache entry unreadable never raises.
C6_UnreadableIsMiss ==
    \A k \in Tasks : task[k].badCache => future[k].kind # "exc"

\* C7: once download_all has returned, every submitted task has completed,
\* and the mosaic is pasted only after download_all has returned.
C7_JoinBarrier ==
    /\ mainpc \in PostJoin =>
          \A k \in Tasks : task[k].pc = "done" /\ future[k].kind # "none"
    /\ elevation # <<>> => mainpc \in {"assembled", "returned"}

\* the mosaic of a batch of several tiles has been pasted
C7_Witness ==
    /\ mainpc = "assembled"
    /\ Len(tiles) > 1
    /\ \A k \in Tasks : future[k].via = "net"
    /\ Len(elevation) = Len(tiles) * NCells

\* C8: of two concurrent download_one calls on one tile, neither raises and
\* both return the composite of a single sequential call.
C8_RaceSafe ==
    \A k \in Tasks :
        task[k].pc = "done" =>
            /\ future[k].kind = "value"
            /\ future[k].data = SequentialComposite

\* C10: when every pixel of the assembled mosaic is no-data, create_geotiff
\* returns False and writes no raster.
C10_EmptyMosaicFails ==
    (/\ mainpc = "returned"
     /\ \A i \in 1 .. Len(elevation) : elevation[i] = NaN)
        => (outcome = "False" /\ ~written)

\* a run over an all-no-data mosaic has returned
C10_Witness ==
    /\ mainpc = "returned"
    /\ Len(elevation) = Len(tiles) * NCells
    /\ \A i \in 1 .. Len(elevation) : elevation[i] = NaN
    /\ outcome = "False"

\* C11: when every pixel of the raster after cropping to the requested
\* bounds is no-data, create_geotiff returns False and writes no raster file.
C11_EmptyCropFails ==
    (mainpc = "returned" /\ \A i \in 1 .. Len(cropped) : cropped[i] = NaN) =>
        (outcome = "False" /\ ~written)

\* the call went past the cache and through the loop over the sources
FetchedAll(k) ==
    \/ task[k].pc \in {"composite", "save", "saving"}
    \/ task[k].pc = "done" /\ future[k].kind = "value" /\ future[k].via = "net"
    \/ task[k].pc = "done" /\ future[k].kind = "exc" /\ future[k].exc = "shape"

\* C23: a download_one call that misses the cache queries the three sources
\* dem5a_png, dem5b_png, dem_png, each exactly once and in this order, at the
\* URL built from the source id, the zoom, x and y; a call served from the
\* cache queries none.
C23_ThreeSources ==
    \A k \in Tasks :
        /\ Len(task[k].urls) = task[k].nreq
        /\ Len(task[k].urls) = Len(task[k].layers)
        /\ Len(task[k].urls) <= 3
        /\ \A i \in 1 .. Len(task[k].urls) :
             task[k].urls[i] =
                <<"https://cyberjapandata.gsi.go.jp/xyz",
                  <<"dem5a_png", "dem5b_png", "dem_png">>[i],
                  Zoom, tiles[k], TileY, ".png">>
        /\ FetchedAll(k) => Len(task[k].urls) = 3
        /\ (future[k].kind = "value" /\ future[k].via = "cache") => task[k].urls = <<>>

\* a call whose first source answered a tile without gaps has returned, after
\* three requests
C23_Witness ==
    \E k \in Tasks :
        /\ future[k].kind = "value" /\ future[k].via = "net"
        /\ task[k].nreq = 3
        /\ task[k].layers[1] # None
        /\ task[k].layers[1] = future[k].data
        /\ Filled(future[k].data)

\* what the first i layers composite to
UnionUpTo(ls, i) == PriorityUnion(SubSeq(ls, 1, i))

\* C26 as stated: processing stops at the first source after which the result
\* has no no-data cell, so a source is fetched and decoded only while the
\* sources of higher priority leave a gap.
C26_NoNeedlessFetch ==
    \A k \in Tasks :
        \A i \in 2 .. Len(task[k].layers) :
            ~Filled(UnionUpTo(task[k].layers, i - 1))

\* C26: the three sources are fetched and decoded in priority order before
\* compositing starts, whatever they answer.  The compositing loop goes
\* through the layers in that order and stops at the first layer after which
\* the result has no no-data cell: the result is the composite of the layers
\* up to that one, no later layer is composited, and no request is made once
\* the composite exists.
C26_CompositingStops ==
    \A k \in Tasks :
        task[k].result # <<>> =>
            LET ls == task[k].layers
                u == task[k].used
            IN  /\ Len(ls) = Len(SOURCES)
                /\ task[k].nreq = Len(SOURCES)
                /\ \A i \in 1 .. Len(ls) : task[k].urls[i][2] = SOURCES[i]
                /\ u \in 1 .. Len(ls)
                /\ task[k].result = UnionUpTo(ls, u)
                /\ \A i \in 1 .. (u - 1) : ~Filled(UnionUpTo(ls, i))
                /\ ~Filled(task[k].result) => u = Len(ls)

\* the first source filled the tile: the loop stopped after one layer, and the
\* second source had been fetched and decoded all the same
C26_Witness ==
    \E k \in Tasks :
        /\ future[k].kind = "value" /\ future[k].via = "net"
        /\ task[k].used = 1
        /\ Filled(task[k].result)
        /\ task[k].layers[2] # None
        /\ Len(task[k].layers[2]) = NCells
        /\ Filled(task[k].layers[2])

\* C28: download_one writes the composite to the cache on every miss, also
\* when every source failed and the composite is all no-data; a later call
\* that finds an all-no-data composite cached returns it without a request,
\* whatever the sources would answer by then.
C28_NegativeCaching ==
    [][\A k \in Tasks :
         /\ (task[k].pc = "composite" /\ task'[k].pc # "composite"
             /\ future'[k].kind # "exc") => task'[k].pc = "save"
         /\ (task[k].pc = "saving" /\ task'[k].pc = "done"
             /\ task[k].fd = "linked") =>
                cache'[tiles[k]] = [st |-> "ok", data |-> task[k].result]
         /\ (task[k].pc = "load" /\ task'[k].pc # "load"
             /\ cache[tiles[k]] = [st |-> "ok", data |-> AllNaN]) =>
                /\ task'[k].pc = "done"
                /\ future'[k].kind = "value"
                /\ future'[k].data = AllNaN
                /\ task'[k].nreq = 0
                /\ task'[k].urls = <<>>]_vars

\* a call on a tile whose sources all failed in an earlier call has returned
\* the cached all-no-data grid, while the first source can answer data
C28_Witness ==
    \E k \in Tasks :
        /\ future[k].kind = "value" /\ future[k].via = "cache"
        /\ future[k].data = AllNaN
        /\ lastReturn[tiles[k]] = AllNaN
        /\ task[k].nreq = 0
        /\ \E r \in remote[1] : r.kind = "image" /\ Len(r.px) = NCells

(***************************************************************************)
(* create_geotiff: tile range and crop window                              *)
(*                                                                         *)
(* Latitudes are integers in thousandths of a degree.  Longitudes are      *)
(* integers in units of 1 / LonSub pixel counted from -180 degrees, so     *)
(* that deg_per_px_lon is exactly LonSub units.                            *)
(***************************************************************************)
\* TILE = 256
TILE == 256

\* num2deg(_, y, 4): latitude of the tile edges y = -4 .. 20 at zoom 4; the
\* rows 0 .. 15 are the tile grid, the formula extends above and below it
MercatorLat ==
    <<88971, 88476, 87743, 86657,
      85051, 82676, 79171, 74020, 66513, 55777, 40980, 21943, 0,
      -21943, -40980, -55777, -66513, -74020, -79171, -82676, -85051,
      -86657, -87743, -88476, -88971>>

\* n = 2.0 ** zoom
TilesPerAxis == 2 ^ Zoom

\* lat of num2deg(x, y, zoom)
LatEdge(y) == MercatorLat[y * (2 ^ (4 - Zoom)) + 5]

\* lon of num2deg(x, y, zoom)
LonEdge(x) == x * TILE * LonSub

\* int(q) for q = a / b with b > 0: truncation toward zero
TruncDiv(a, b) == IF a >= 0 THEN a \div b ELSE -((-a) \div b)

\* x of deg2num: int((lon + 180.0) / 360.0 * n), exact at tile edges
Deg2NumX(lon) == TruncDiv(lon, TILE * LonSub)

\* y of deg2num in exact arithmetic: the row whose top edge is at or above
\* lat.  There is no test of the latitude: above the grid the quotient is
\* negative and int() truncates it toward zero (row 0 up to the edge of row
\* -1, then row -1), below the grid it yields row n.  Defined for latitudes
\* between the edges of row -2 and row n + 1.
ExactY(lat) ==
    IF lat > LatEdge(0)
    THEN (IF lat >= LatEdge(-1) THEN -1 ELSE 0)
    ELSE CHOOSE y \in 0 .. TilesPerAxis :
            /\ LatEdge(y) >= lat
            /\ \A j \in 0 .. TilesPerAxis : LatEdge(j) >= lat => j <= y

\* lat is the latitude of a tile edge below the top of the grid
OnEdge(lat) == lat = LatEdge(ExactY(lat)) /\ ExactY(lat) > 0

\* y of deg2num as the floating-point expression yields it.  On a latitude
\* that is a tile edge the quotient computed through tan, cos and log lands
\* on the integer or just below it, so int() gives the row below the edge or
\* the row above it (down): deg2num(38.15183740300677, ., 14) has y = 6310
\* although num2deg(., 6311, 14) is 38.15183740300677.
Deg2NumY(lat, down) ==
    IF OnEdge(lat) /\ down THEN ExactY(lat) - 1 ELSE ExactY(lat)

LatSamples ==
    UNION {{LatEdge(j) - 1, LatEdge(j), LatEdge(j) + 1,
            (LatEdge(j) + LatEdge(j - 1)) \div 2} : j \in 1 .. (TilesPerAxis - 1)}

LonSamples ==
    {LonEdge(x) + d : x \in 1 .. (TilesPerAxis - 1), d \in {0, 1, TILE * LonSub - 1}}

\* create_geotiff(lat_min, lat_max, lon_min, lon_max, ...) is called
InitCrop ==
    /\ req \in LatSamples \X LatSamples \X LonSamples \X LonSamples
    /\ geo = NoGeo
    /\ croppc = "request"
    /\ rgb = <<0, 0, 0>>
    /\ elev = Undecoded
    /\ IdlePipeline
    /\ IdleLayers

\* the first latitude as given, without the reordering
LatMin_AsGiven == req[1]

\* lat_min, lat_max = min(...), max(...); lon likewise
LatMin == Min2(req[1], req[2])
LatMax == Max2(req[1], req[2])
LonMin == Min2(req[3], req[4])
LonMax == Max2(req[3], req[4])

\* x_min, y_min = deg2num(lat_max, lon_min); x_max, y_max = deg2num(lat_min,
\* lon_max); height, width = ny * TILE, nx * TILE
TileRange ==
    /\ croppc = "request"
    /\ \E dmax, dmin \in BOOLEAN :
         /\ (LatMax = LatMin) => (dmax = dmin)
         /\ geo' = [geo EXCEPT
                      !.x_min = Deg2NumX(LonMin),
                      !.y_min = Deg2NumY(LatMax, dmax),
                      !.x_max = Deg2NumX(LonMax),
                      !.y_max = Deg2NumY(LatMin, dmin),
                      !.width = (Deg2NumX(LonMax) - Deg2NumX(LonMin) + 1) * TILE,
                      !.height = (Deg2NumY(LatMin, dmin)
                                  - Deg2NumY(LatMax, dmax) + 1) * TILE]
    /\ croppc' = "tiled"
    /\ UNCHANGED <<layerVars, req, decodeVars, envVars, tileVars, mainVars>>

\* the mosaic's bounds from num2deg at the corners of the tile rectangle
LatMaxActual == LatEdge(geo.y_min)
LatMinActual == LatEdge(geo.y_max + 1)
LonMinActual == LonEdge(geo.x_min)
LonMaxActual == LonEdge(geo.x_max + 1)

\* int((lon - lon_min_actual) / deg_per_px_lon),
\* deg_per_px_lon = (lon_max_actual - lon_min_actual) / width
ColOf(lon) ==
    TruncDiv((lon - LonMinActual) * geo.width, LonMaxActual - LonMinActual)

\* int((lat_max_actual - lat) / deg_per_px_lat),
\* deg_per_px_lat = (lat_max_actual - lat_min_actual) / height
RowOf(lat) ==
    TruncDiv((LatMaxActual - lat) * geo.height, LatMaxActual - LatMinActual)

\* the crop window in pixels, clamped
CropWindow ==
    /\ croppc = "tiled"
    /\ geo' = [geo EXCEPT
                 !.col_start = ClampStart(ColOf(LonMin)),
                 !.col_end = ClampEnd(ColOf(LonMax), ClampStart(ColOf(LonMin)),
                                      geo.width),
                 !.row_start = ClampStart(RowOf(LatMax)),
                 !.row_end = ClampEnd(RowOf(LatMin), ClampStart(RowOf(LatMax)),
                                      geo.height)]
    /\ croppc' = "cropped"
    /\ UNCHANGED <<layerVars, req, decodeVars, envVars, tileVars, mainVars>>

NextCrop == TileRange \/ CropWindow

SpecCrop == InitCrop /\ [][NextCrop]_vars

\* C9: after clamping, 0 <= start < end <= dimension on both axes, so the crop
\* is at least 1 x 1 and its bounds, recomputed from the pixel offsets with
\* the same per-pixel degree size, lie within the mosaic's bounds.  (The
\* bounds are compared after multiplying by the mosaic's dimension.)
C9_CropWindow ==
    croppc = "cropped" =>
        /\ 0 <= geo.col_start /\ geo.col_start < geo.col_end
        /\ geo.col_end <= geo.width
        /\ 0 <= geo.row_start /\ geo.row_start < geo.row_end
        /\ geo.row_end <= geo.height
        /\ LET dLon == LonMaxActual - LonMinActual
               dLat == LatMaxActual - LatMinActual
           IN  /\ LonMinActual * geo.width + geo.col_start * dLon
                     >= LonMinActual * geo.width
               /\ LonMinActual * geo.width + geo.col_end * dLon
                     <= LonMaxActual * geo.width
               /\ LatMaxActual * geo.height - geo.row_start * dLat
                     <= LatMaxActual * geo.height
               /\ LatMaxActual * geo.height - geo.row_end * dLat
                     >= LatMinActual * geo.height

\* longitudes on a tile edge, next to it and at the far end of the last column
SwapLonSamples ==
    {LonEdge(1), LonEdge(1) + 1, LonEdge(TilesPerAxis) - 1}

\* create_geotiff is called with each pair of bounds in either order
InitSwap ==
    /\ req \in LatSamples \X LatSamples \X SwapLonSamples \X SwapLonSamples
    /\ geo = NoGeo
    /\ croppc = "request"
    /\ rgb = <<0, 0, 0>>
    /\ elev = Undecoded
    /\ IdlePipeline
    /\ IdleLayers

SpecSwap == InitSwap /\ [][NextCrop]_vars

\* the request with each pair put in order: <<south, north, west, east>>
Ordered ==
    <<IF req[1] <= req[2] THEN req[1] ELSE req[2],
      IF req[1] <= req[2] THEN req[2] ELSE req[1],
      IF req[3] <= req[4] THEN req[3] ELSE req[4],
      IF req[3] <= req[4] THEN req[4] ELSE req[3]>>

\* C21: a request whose latitude or longitude bounds are given inverted is
\* reordered first, so it has the tile range, the mosaic size and the crop
\* window of the ordered request: the tile columns run from the column of the
\* western bound to the column of the eastern one, the rows from the row of
\* the northern bound to the row of the southern one, and the window is the
\* clamped pixel range of the same ordered bounds.
C21_InvertedBounds ==
    croppc \in {"tiled", "cropped"} =>
        /\ geo.x_min = Deg2NumX(Ordered[3])
        /\ geo.x_max = Deg2NumX(Ordered[4])
        /\ \E dmax, dmin \in BOOLEAN :
             /\ geo.y_min = Deg2NumY(Ordered[2], dmax)
             /\ geo.y_max = Deg2NumY(Ordered[1], dmin)
        /\ geo.width = (geo.x_max - geo.x_min + 1) * TILE
        /\ geo.height = (geo.y_max - geo.y_min + 1) * TILE
        /\ croppc = "cropped" =>
             /\ geo.col_start = ClampStart(ColOf(Ordered[3]))
             /\ geo.col_end = ClampEnd(ColOf(Ordered[4]), geo.col_start, geo.width)
             /\ geo.row_start = ClampStart(RowOf(Ordered[2]))
             /\ geo.row_end = ClampEnd(RowOf(Ordered[1]), geo.row_start, geo.height)

\* both pairs were given inverted and the window has been computed
C21_Witness ==
    /\ croppc = "cropped"
    /\ req[1] > req[2]
    /\ req[3] > req[4]
    /\ geo.x_min < geo.x_max
    /\ geo.y_min < geo.y_max

\* the valid Mercator band of the latitude, (-85.05, 85.05) degrees
InBand(lat) == -85050 < lat /\ lat < 85050

\* latitudes inside the band and, outside it, just above the grid, above the
\* edge of row -1 and just below the grid
BandLatSamples ==
    {LatEdge(1) + 1, LatEdge(TilesPerAxis - 1) - 1,
     LatEdge(0) + 1, LatEdge(-1) + 1, LatEdge(TilesPerAxis) - 1}

\* create_geotiff is called with at least one latitude outside the band
InitBand ==
    /\ req \in BandLatSamples \X BandLatSamples \X LonSamples \X LonSamples
    /\ ~InBand(req[1]) \/ ~InBand(req[2])
    /\ geo = NoGeo
    /\ croppc = "request"
    /\ rgb = <<0, 0, 0>>
    /\ elev = Undecoded
    /\ IdlePipeline
    /\ IdleLayers

SpecBand == InitBand /\ [][NextCrop]_vars

\* C20: deg2num called with a latitude outside the band (-85.05, 85.05) fails
\* with an out-of-range error instead of returning a tile index, and a
\* create_geotiff request with such a latitude aborts before any tile is
\* fetched: the tile range is never computed for it.
C20_OutOfBandFails ==
    croppc # "request" => (InBand(req[1]) /\ InBand(req[2]))

(***************************************************************************)
(* png_to_elevation on sample pixels                                       *)
(***************************************************************************)
ByteSamples ==
    (0 .. ByteRadius) \cup ((128 - ByteRadius) .. (128 + ByteRadius))
        \cup ((255 - ByteRadius) .. 255)

InitDecode ==
    /\ rgb \in ByteSamples \X ByteSamples \X ByteSamples
    /\ elev = Undecoded
    /\ IdlePipeline
    /\ IdleCrop
    /\ IdleLayers

\* png_to_elevation applied to the pixel
Decode ==
    /\ elev = Undecoded
    /\ elev' = PixelToElevation(PixelValue(rgb))
    /\ UNCHANGED <<layerVars, rgb, envVars, tileVars, mainVars, cropVars>>

NextDecode == Decode

SpecDecode == InitDecode /\ [][NextDecode]_vars

\* C1: every 24-bit pixel value x decodes to no-data when x = 8388608, to
\* x hundredths of a metre when x < 8388608 and to x - 16777216 hundredths
\* when x > 8388608; so 0 -> 0.00 m, 8388607 -> 83886.07 m, 16777215 -> -0.01 m.
C1_DecodeRule ==
    elev # Undecoded =>
        LET x == rgb[1] * 65536 + rgb[2] * 256 + rgb[3]
        IN  /\ 0 <= x /\ x < 16777216
            /\ (x = 8388608) => (elev = NaN)
            /\ (x < 8388608) => (elev = x /\ elev # NaN)
            /\ (x > 8388608) => (elev = x - 16777216 /\ elev # NaN)
            /\ (x = 0) => (elev = 0)
            /\ (x = 8388607) => (elev = 8388607)
            /\ (x = 16777215) => (elev = -1)

\* the no-data pixel (128, 0, 0) has been decoded
C1_Witness ==
    /\ rgb = <<128, 0, 0>>
    /\ elev = NaN

\* C24 as stated: the pixel value 8388609 (RGB = 128, 0, 1) decodes to
\* -83838.07 m.
C24_StatedValue ==
    (elev # Undecoded /\ rgb = <<128, 0, 1>>) => elev = 0 - 8383807

\* C24: the pixel value 8388609 (RGB = 128, 0, 1) decodes to
\* (8388609 - 16777216) * 0.01 = -83886.07 m, the lowest elevation the format
\* holds.
C24_LowestValue ==
    (elev # Undecoded /\ rgb = <<128, 0, 1>>) =>
        /\ rgb[1] * 65536 + rgb[2] * 256 + rgb[3] = 8388609
        /\ elev = 8388609 - 16777216
        /\ elev = 0 - 8388607

\* the pixel (128, 0, 1) has been decoded
C24_Witness ==
    /\ rgb = <<128, 0, 1>>
    /\ elev # Undecoded
    /\ elev # NaN

(***************************************************************************)
(* terrain_layering.py: TerrainLayerGenerator, levels                      *)
(*                                                                         *)
(* Elevations, the interval and the levels are integers in hundredths of   *)
(* a metre, so interval * 0.01 is one hundredth of the interval's count.   *)
(***************************************************************************)
\* nothing of download_dem.py is running
IdleDownloader ==
    /\ rgb = <<0, 0, 0>>
    /\ elev = Undecoded
    /\ IdlePipeline
    /\ IdleCrop

\* a level step of one metre, the unit the samples are laid out on
Metre == 100

\* nanmin / nanmax of the DEM: values on, next to and between whole metres
ElevSamples ==
    {k * Metre + d : k \in -1 .. MaxElevSteps, d \in {-1, 0, 1, Metre \div 2}}

\* --interval: half a metre, one metre, two metres
IntervalSamples == {Metre \div 2, Metre, 2 * Metre}

\* --base when given: below sea level, inside the DEM's range and above it
BaseSamples ==
    {k * Metre + d : k \in -1 .. (MaxElevSteps + 1), d \in {0, 1, Metre \div 2}}

\* TerrainLayerGenerator(dem_file, interval, base_elevation) is called
InitLevels ==
    /\ \E lo, hi \in ElevSamples, iv \in IntervalSamples,
          given \in BOOLEAN, b \in BaseSamples :
         /\ lo <= hi
         /\ ~given => b = 0
         /\ gen = [min_elev |-> lo, max_elev |-> hi, interval |-> iv,
                   base_given |-> given, base_elevation |-> b, base_elev |-> 0]
    /\ genpc = "new"
    /\ levels = <<>>
    /\ grid = <<>>
    /\ traced = <<>>
    /\ rdp = NoRdp
    /\ ga = NoGa
    /\ loop = NoLoop
    /\ xc = NoXc
    /\ IdleDownloader

\* np.floor(self.min_elev / interval) * interval
AutoBase(min_elev, interval) == (min_elev \div interval) * interval

\* __init__: base_elev is the given base, or the minimum floored to the interval
Construct ==
    /\ genpc = "new"
    /\ gen' = [gen EXCEPT !.base_elev =
                 IF gen.base_given THEN gen.base_elevation
                 ELSE AutoBase(gen.min_elev, gen.interval)]
    /\ genpc' = "constructed"
    /\ UNCHANGED <<loop, xc, levels, grid, traced, rdp, ga, decodeVars, envVars, tileVars,
                   mainVars, cropVars>>

\* a plausible slip: the base is used without the clamp at sea level
EffectiveBase_NoClamp(base_elev) == base_elev

\* effective_base = max(0.0, self.base_elev)
EffectiveBase(base_elev) == Max2(0, base_elev)

\* a plausible slip: the loop stops at max_elev, without the tolerance
InRange_NoTolerance(v, max_elev, interval) == v <= max_elev

\* v <= self.max_elev + self.interval * 0.01
InRange(v, max_elev, interval) == 100 * v <= 100 * max_elev + interval

\* the while loop of get_levels from v on: append v, v += interval
RECURSIVE LevelsFrom(_, _, _)
LevelsFrom(v, g, acc) ==
    IF InRange(v, g.max_elev, g.interval)
    THEN LevelsFrom(v + g.interval, g, Append(acc, v))
    ELSE acc

\* get_levels()
GetLevels(g) == LevelsFrom(EffectiveBase(g.base_elev), g, <<>>)

\* a caller obtains the level list
CallGetLevels ==
    /\ genpc = "constructed"
    /\ levels' = GetLevels(gen)
    /\ genpc' = "levels"
    /\ UNCHANGED <<loop, xc, gen, grid, traced, rdp, ga, decodeVars, envVars, tileVars, mainVars, cropVars>>

NextLevels == Construct \/ CallGetLevels

SpecLevels == InitLevels /\ [][NextLevels]_vars

\* the base the claim names: the given one, else the multiple of the interval
\* with base <= min_elev < base + interval
ClaimedBase ==
    IF gen.base_given THEN gen.base_elevation
    ELSE CHOOSE b \in (gen.min_elev - gen.interval + 1) .. gen.min_elev :
            b % gen.interval = 0

ClaimedEffectiveBase == IF ClaimedBase < 0 THEN 0 ELSE ClaimedBase

\* more steps than any list of the sampled configurations has
StepsBeyond == (MaxElevSteps + 2) * 2 + 2

\* the k for which effectiveBase + k * interval <= max_elev + 0.01 * interval
ClaimedSteps ==
    {k \in 0 .. StepsBeyond :
        100 * (ClaimedEffectiveBase + k * gen.interval)
            <= 100 * gen.max_elev + gen.interval}

InitExample ==
    /\ \E lo \in {(0 - 15) * Metre, (0 - 5) * Metre, 0, 5 * Metre},
          hi \in {k * Metre + d : k \in {119, 120, 123, 129, 130}, d \in {0 - 1, 0, 1}},
          iv \in {5 * Metre, 10 * Metre},
          given \in BOOLEAN, b \in {0, 10 * Metre} :
         /\ ~given => b = 0
         /\ gen = [min_elev |-> lo, max_elev |-> hi, interval |-> iv,
                   base_given |-> given, base_elevation |-> b, base_elev |-> 0]
    /\ genpc = "new"
    /\ levels = <<>>
    /\ grid = <<>>
    /\ traced = <<>>
    /\ rdp = NoRdp
    /\ ga = NoGa
    /\ loop = NoLoop
    /\ xc = NoXc
    /\ IdleDownloader

SpecExample == InitExample /\ [][NextLevels]_vars

\* the worked example: min -5 m, max 123 m, interval 10 m, base not given
IsExample ==
    /\ gen.min_elev = (0 - 5) * Metre
    /\ gen.max_elev = 123 * Metre
    /\ gen.interval = 10 * Metre
    /\ ~gen.base_given

\* C25 as stated: for the worked example the effective base is 0 and
\* get_levels returns 0, 10, 20, ..., 130 m, the last level being 130 m.
C25_LastLevel130 ==
    (IsExample /\ genpc = "levels") =>
        /\ EffectiveBase(gen.base_elev) = 0
        /\ levels = [k \in 1 .. 14 |-> (k - 1) * 10 * Metre]
        /\ levels[Len(levels)] = 130 * Metre

\* C25: for the worked example the base is -10 m, the effective base is 0 and
\* get_levels returns 0, 10, 20, ..., 120 m: 130 m is above 123 + 0.1 m, so
\* the last of the thirteen levels is 120 m.
C25_LastLevel120 ==
    (IsExample /\ genpc = "levels") =>
        /\ gen.base_elev = (0 - 10) * Metre
        /\ EffectiveBase(gen.base_elev) = 0
        /\ levels = [k \in 1 .. 13 |-> (k - 1) * 10 * Metre]
        /\ levels[Len(levels)] = 120 * Metre

\* get_levels has returned for the worked example
C25_Witness ==
    /\ IsExample
    /\ genpc = "levels"
    /\ Len(levels) > 1

\* C13: for every configuration the level sequence is non-empty, strictly
\* increasing, starts at the effective base and its last level lies within
\* one interval of max_elev, so levels[0] and levels[-1] can be addressed.
C13_LevelsNonEmpty ==
    genpc = "levels" =>
        /\ Len(levels) >= 1
        /\ levels[1] = EffectiveBase(gen.base_elev)
        /\ \A i \in 1 .. (Len(levels) - 1) : levels[i] < levels[i + 1]
        /\ levels[Len(levels)] > gen.max_elev - gen.interval
        /\ levels[Len(levels)] <= gen.max_elev + gen.interval

(***************************************************************************)
(* terrain_layering.py: get_levels, the loop step by step                  *)
(*                                                                         *)
(* v, the interval and the elevations are floats.  The model carries them  *)
(* as integers and rounds every sum to MantissaBits significant bits, as   *)
(* the float addition rounds to 53: the integers up to 2 ^ MantissaBits    *)
(* are exact, from there on the floats are 2 apart, then 4, and so on.     *)
(***************************************************************************)
\* the spacing of the floats at x >= 0
RECURSIVE UlpFrom(_, _)
UlpFrom(x, u) == IF x < (2 ^ MantissaBits) * u THEN u ELSE UlpFrom(x, 2 * u)

Ulp(x) == UlpFrom(x, 1)

\* x >= 0 rounded to the nearest float, a tie to the even significand
Fl(x) ==
    LET u == Ulp(x)
        lo == (x \div u) * u
    IN  IF 2 * (x - lo) < u THEN lo
        ELSE IF 2 * (x - lo) > u THEN lo + u
        ELSE IF (lo \div u) % 2 = 0 THEN lo ELSE lo + u

\* v += self.interval
FlAdd(v, interval) == Fl(v + interval)

\* more iterations than any list of the sampled configurations may hold
MaxIter == 2 ^ MantissaBits + 6

\* generators whose values are floats: a small DEM range, or one that
\* reaches past the exact integers; an interval of 0, 1 or 2; an automatic
\* base, or a given one up to the spacing-2 range.  An interval of 0 comes
\* with a given base.
InitLoop ==
    /\ \E lo \in {0 - 1, 0, 3}, hi \in {3, 2 ^ MantissaBits + 2},
          iv \in {0, 1, 2}, given \in BOOLEAN,
          b \in {0, 2, 2 ^ MantissaBits, 2 ^ MantissaBits + 4} :
         /\ ~given => b = 0
         /\ iv = 0 => given
         /\ gen = [min_elev |-> lo, max_elev |-> hi, interval |-> iv,
                   base_given |-> given, base_elevation |-> b, base_elev |-> 0]
    /\ genpc = "new"
    /\ levels = <<>>
    /\ grid = <<>>
    /\ traced = <<>>
    /\ rdp = NoRdp
    /\ ga = NoGa
    /\ loop = [NoLoop EXCEPT !.pc = "idle"]
    /\ xc = NoXc
    /\ IdleDownloader

\* get_levels is called: levels = [], v = effective_base
EnterLoop ==
    /\ genpc = "constructed"
    /\ loop.pc = "idle"
    /\ loop' = [pc |-> "test", v |-> EffectiveBase(gen.base_elev), acc |-> <<>>]
    /\ UNCHANGED <<gen, genpc, levels, grid, traced, rdp, ga, xc, decodeVars, envVars,
                   tileVars, mainVars, cropVars>>

\* the loop test holds: levels.append(v); v += self.interval
Iterate ==
    /\ loop.pc = "test"
    /\ InRange(loop.v, gen.max_elev, gen.interval)
    /\ Len(loop.acc) < MaxIter
    /\ loop' = [loop EXCEPT !.acc = Append(@, loop.v),
                            !.v = FlAdd(loop.v, gen.interval)]
    /\ UNCHANGED <<gen, genpc, levels, grid, traced, rdp, ga, xc, decodeVars, envVars,
                   tileVars, mainVars, cropVars>>

\* the loop test fails: return levels
ReturnLevels ==
    /\ loop.pc = "test"
    /\ ~InRange(loop.v, gen.max_elev, gen.interval)
    /\ loop' = [loop EXCEPT !.pc = "returned"]
    /\ levels' = loop.acc
    /\ genpc' = "levels"
    /\ UNCHANGED <<gen, grid, traced, rdp, ga, xc, decodeVars, envVars,
                   tileVars, mainVars, cropVars>>

NextLoop == Construct \/ EnterLoop \/ Iterate \/ ReturnLevels

SpecLoop == InitLoop /\ [][NextLoop]_vars

\* floor((max_elev + 0.01 * interval - effectiveBase) / interval) + 1, and
\* no level when that is below 0
LevelBound ==
    Max2(0, ((100 * gen.max_elev + gen.interval
                 - 100 * EffectiveBase(gen.base_elev)) \div (100 * gen.interval)) + 1)

\* C30: with interval > 0 and a finite base and maximum, get_levels
\* terminates and returns at most
\* floor((max_elev + 0.01 * interval - effectiveBase) / interval) + 1 levels,
\* because every iteration adds the positive interval to v: every iteration
\* increases v, and the list being built never holds more levels than that.
C30_BoundedLevels ==
    (loop.pc \in {"test", "returned"} /\ gen.interval > 0) =>
        /\ Len(loop.acc) <= LevelBound
        /\ \A i \in 1 .. (Len(loop.acc) - 1) : loop.acc[i] < loop.acc[i + 1]
        /\ loop.acc # <<>> => loop.acc[Len(loop.acc)] < loop.v

(***************************************************************************)
(* terrain_layering.py: extract_contours, the region before tracing        *)
(***************************************************************************)
GridRows == 1 .. 3
GridCols == 1 .. GridW
Cells == GridRows \X GridCols

\* the cell values of the sampled grids: no-data, one metre, two metres
CellSamples == {NaN, Metre, 2 * Metre}

\* the levels the regions are traced for
LevelSamples == {Metre, 2 * Metre}

\* a generator whose elevation grid is loaded
InitContour ==
    /\ grid \in [Cells -> CellSamples]
    /\ traced = <<>>
    /\ gen = NoGen
    /\ genpc = "off"
    /\ levels = <<>>
    /\ rdp = NoRdp
    /\ ga = NoGa
    /\ loop = NoLoop
    /\ xc = NoXc
    /\ IdleDownloader

\* a plausible slip: the mask of the band [level, level + 1 m), not of
\* everything at or above the level
AboveLevel_Band(v, level) == v # NaN /\ v >= level /\ v < level + Metre

\* valid & (data >= level), for one cell
AboveLevel(v, level) == v # NaN /\ v >= level

\* binary_mask before hole-filling
BinaryMask(g, level) == {c \in Cells : AboveLevel(g[c], level)}

\* c lies on the outer border of the grid
OnBorder(c) == c[1] = 1 \/ c[1] = 3 \/ c[2] = 1 \/ c[2] = GridW

\* a plausible slip: a structuring element with the diagonals
Neighbours_Diagonal(c) ==
    {d \in Cells : d # c /\ d[1] - c[1] \in {-1, 0, 1} /\ d[2] - c[2] \in {-1, 0, 1}}

\* the default structuring element of binary_fill_holes: the 4 edge neighbours
Neighbours(c) ==
    {d \in Cells : \/ d[1] = c[1] /\ d[2] - c[2] \in {-1, 1}
                   \/ d[2] = c[2] /\ d[1] - c[1] \in {-1, 1}}

\* binary_dilation(zeros, structure, -1, mask = ~input, border_value = 1):
\* the set grows from outside the array through the cells of the complement
\* until nothing is added
RECURSIVE Dilate(_, _)
Dilate(reached, complement) ==
    LET new == {c \in complement \ reached :
                   OnBorder(c) \/ Neighbours(c) \cap reached # {}}
    IN  IF new = {} THEN reached ELSE Dilate(reached \cup new, complement)

\* binary_fill_holes(binary_mask): everything the dilation did not reach
FillHoles(mask) == Cells \ Dilate({}, Cells \ mask)

\* the region extract_contours pads and hands to find_contours
Region(g, level) == FillHoles(BinaryMask(g, level))

\* extract_contours(level) builds its region
ExtractRegion(l) ==
    /\ grid # <<>>
    /\ genpc = "off"
    /\ l \notin DOMAIN traced
    /\ traced' = [k \in DOMAIN traced \cup {l} |->
                    IF k = l THEN Region(grid, l) ELSE traced[k]]
    /\ UNCHANGED <<loop, xc, gen, genpc, levels, grid, rdp, ga, decodeVars, envVars, tileVars,
                   mainVars, cropVars>>

NextContour == \E l \in LevelSamples : ExtractRegion(l)

SpecContour == InitContour /\ [][NextContour]_vars

\* C14: for any grid and any two levels L1 < L2, the region traced for L2
\* (valid and >= L2, after hole-filling) is a subset of the region traced
\* for L1.
C14_Nesting ==
    \A l1, l2 \in DOMAIN traced : l1 < l2 => traced[l2] \subseteq traced[l1]

\* both regions are traced, the upper one is non-empty, smaller than the
\* lower one, and holds a filled hole
C14_Witness ==
    /\ DOMAIN traced = LevelSamples
    /\ traced[2 * Metre] # {}
    /\ traced[2 * Metre] # traced[Metre]
    /\ \E c \in traced[2 * Metre] : grid[c] # 2 * Metre

\* c is no-data or below the level
Low(c, level) == grid[c] = NaN \/ grid[c] < level

\* c and d share an edge
EdgeAdjacent(c, d) ==
    (c[1] - d[1]) * (c[1] - d[1]) + (c[2] - d[2]) * (c[2] - d[2]) = 1

\* the low cells connected to c through edge-adjacent low cells, grown from c
RECURSIVE LowComponent(_, _)
LowComponent(comp, level) ==
    LET more == {d \in Cells \ comp :
                    Low(d, level) /\ \E c \in comp : EdgeAdjacent(c, d)}
    IN  IF more = {} THEN comp ELSE LowComponent(comp \cup more, level)

\* c lies on the grid's outer border
BorderCell(c) == c[1] = 1 \/ c[1] = 3 \/ c[2] = 1 \/ c[2] = GridW

\* c is connected, through edge-adjacent low cells, to a cell on the border
ConnectedToBorder(c, level) ==
    BorderCell(c) \/ \E d \in LowComponent({c}, level) : BorderCell(d)

\* C15: after hole-filling at a level a cell is excluded iff it is no-data or
\* below the level and connected, through edge-adjacent cells that are also
\* no-data or below the level, to a cell on the outer border; so an excluded
\* region not reachable from the border becomes land, a cell that was valid
\* and >= level stays land, and a low region touching the border stays
\* excluded.
C15_HoleFilling ==
    \A l \in DOMAIN traced : \A c \in Cells :
        LET excluded == c \notin traced[l]
            low == Low(c, l)
            reachable == low /\ ConnectedToBorder(c, l)
        IN  /\ excluded <=> reachable
            /\ (low /\ ~reachable) => ~excluded
            /\ ~low => ~excluded
            /\ (low /\ BorderCell(c)) => excluded

\* an enclosed low cell was filled while a low cell on the border, touching
\* it only diagonally, stayed excluded
C15_Witness ==
    \E l \in DOMAIN traced :
        /\ Low(<<2, 2>>, l) /\ <<2, 2>> \in traced[l]
        /\ Low(<<1, 1>>, l) /\ <<1, 1>> \notin traced[l]

(***************************************************************************)
(* terrain_layering.py: _rdp_simplify                                      *)
(*                                                                         *)
(* Points are <<row, col>> pairs of integers; epsilon is eps2 / 2.  The    *)
(* distances are compared through their squares, which is exact.           *)
(***************************************************************************)
Coords == 0 .. 2
PointSamples == Coords \X Coords

\* _rdp_simplify(points, epsilon) is called
InitRdp ==
    /\ \E n \in 0 .. MaxPts : \E ps \in [1 .. n -> PointSamples] :
         \E e \in 0 .. MaxEps2 :
            rdp = [points |-> ps, eps2 |-> e, result |-> <<>>, pc |-> "called"]
    /\ gen = NoGen
    /\ genpc = "off"
    /\ levels = <<>>
    /\ grid = <<>>
    /\ traced = <<>>
    /\ ga = NoGa
    /\ loop = NoLoop
    /\ xc = NoXc
    /\ IdleDownloader

Minus(p, q) == <<p[1] - q[1], p[2] - q[2]>>
Dot(p, q) == p[1] * q[1] + p[2] * q[2]
\* np.cross of two 2-vectors
Cross(p, q) == p[1] * q[2] - p[2] * q[1]

\* norm ** 2 for d = end - start
Norm2(ps) == Dot(Minus(ps[Len(ps)], ps[1]), Minus(ps[Len(ps)], ps[1]))

\* dists[i] squared, times norm ** 2 when the chord is not a point:
\* np.linalg.norm(points - start) or |np.cross(d, start - points)| / norm
Dev2(ps, i) ==
    IF Norm2(ps) = 0
    THEN Dot(Minus(ps[i], ps[1]), Minus(ps[i], ps[1]))
    ELSE Cross(Minus(ps[Len(ps)], ps[1]), Minus(ps[1], ps[i]))
            * Cross(Minus(ps[Len(ps)], ps[1]), Minus(ps[1], ps[i]))

\* idx = np.argmax(dists): the first index of the maximum
ArgMax(ps) ==
    CHOOSE i \in 1 .. Len(ps) :
        /\ \A j \in 1 .. Len(ps) : Dev2(ps, j) <= Dev2(ps, i)
        /\ \A j \in 1 .. (i - 1) : Dev2(ps, j) < Dev2(ps, i)

\* a plausible slip: the deviation is compared with twice the tolerance
Exceeds_Double(ps, i, eps2) ==
    IF Norm2(ps) = 0
    THEN Dev2(ps, i) > eps2 * eps2
    ELSE Dev2(ps, i) > eps2 * eps2 * Norm2(ps)

\* dists[idx] > epsilon
Exceeds(ps, i, eps2) ==
    IF Norm2(ps) = 0
    THEN 4 * Dev2(ps, i) > eps2 * eps2
    ELSE 4 * Dev2(ps, i) > eps2 * eps2 * Norm2(ps)

\* a plausible slip: the shared point is dropped from both halves
Join_DropBoth(left, right) == SubSeq(left, 1, Len(left) - 1) \o Tail(right)

\* np.vstack([left[:-1], right])
Join(left, right) == SubSeq(left, 1, Len(left) - 1) \o right

\* a plausible slip: a run within the tolerance is returned as it is
Collapse_Keep(ps) == ps

\* np.vstack([start, end])
Collapse(ps) == <<ps[1], ps[Len(ps)]>>

RECURSIVE RdpSimplify(_, _)
RdpSimplify(ps, eps2) ==
    IF Len(ps) < 3 THEN ps
    ELSE LET idx == ArgMax(ps)
         IN  IF Exceeds(ps, idx, eps2)
             THEN Join(RdpSimplify(SubSeq(ps, 1, idx), eps2),
                       RdpSimplify(SubSeq(ps, idx, Len(ps)), eps2))
             ELSE Collapse(ps)

\* the call returns
Simplify ==
    /\ rdp.pc = "called"
    /\ rdp' = [rdp EXCEPT !.result = RdpSimplify(rdp.points, rdp.eps2),
                          !.pc = "returned"]
    /\ UNCHANGED <<loop, xc, gen, genpc, levels, grid, traced, ga, decodeVars, envVars,
                   tileVars, mainVars, cropVars>>

NextRdp == Simplify

SpecRdp == InitRdp /\ [][NextRdp]_vars

\* every three points of ps lie on one line
Collinear(ps) ==
    \A i, j, k \in 1 .. Len(ps) :
        (ps[j][1] - ps[i][1]) * (ps[k][2] - ps[i][2])
            = (ps[j][2] - ps[i][2]) * (ps[k][1] - ps[i][1])

\* C16: for three or more collinear points whose first and last differ and
\* any epsilon > 0, _rdp_simplify returns exactly the two endpoints.
C16_CollinearRun ==
    (/\ rdp.pc = "returned"
     /\ Len(rdp.points) >= 3
     /\ rdp.points[1] # rdp.points[Len(rdp.points)]
     /\ Collinear(rdp.points)
     /\ rdp.eps2 > 0)
    => rdp.result = <<rdp.points[1], rdp.points[Len(rdp.points)]>>

\* a run of MaxPts collinear points, not in order along the line,
\* was simplified with the smallest positive tolerance
C16_Witness ==
    /\ rdp.pc = "returned"
    /\ Len(rdp.points) = MaxPts
    /\ Collinear(rdp.points)
    /\ rdp.points[1] = <<0, 0>> /\ rdp.points[2] = <<2, 2>>
    /\ rdp.points[Len(rdp.points)] = <<1, 1>>
    /\ rdp.eps2 = 1
    /\ Len(rdp.result) = 2

\* the points from index a to index b run along one straight leg, in order
StraightLeg(ps, a, b) ==
    /\ ps[a] # ps[b]
    /\ \A i \in a .. (b - 1) :
         /\ (ps[i + 1][1] - ps[i][1]) * (ps[b][2] - ps[a][2])
               = (ps[i + 1][2] - ps[i][2]) * (ps[b][1] - ps[a][1])
         /\ (ps[i + 1][1] - ps[i][1]) * (ps[b][1] - ps[a][1])
               + (ps[i + 1][2] - ps[i][2]) * (ps[b][2] - ps[a][2]) > 0

\* ps is two straight legs meeting at a right angle at index m
RightAngleAt(ps, m) ==
    /\ 1 < m /\ m < Len(ps)
    /\ StraightLeg(ps, 1, m)
    /\ StraightLeg(ps, m, Len(ps))
    /\ (ps[m][1] - ps[1][1]) * (ps[Len(ps)][1] - ps[m][1])
          + (ps[m][2] - ps[1][2]) * (ps[Len(ps)][2] - ps[m][2]) = 0

\* the corner's perpendicular distance from the chord exceeds epsilon:
\* area^2 / chord^2 > (eps2 / 2)^2, area the doubled triangle area
CornerBeyond(ps, m, eps2) ==
    LET n == Len(ps)
        area == (ps[n][1] - ps[1][1]) * (ps[m][2] - ps[1][2])
                  - (ps[n][2] - ps[1][2]) * (ps[m][1] - ps[1][1])
        chord2 == (ps[n][1] - ps[1][1]) * (ps[n][1] - ps[1][1])
                    + (ps[n][2] - ps[1][2]) * (ps[n][2] - ps[1][2])
    IN  4 * area * area > eps2 * eps2 * chord2

\* C17: for a polyline of two straight legs meeting at a right angle, when the
\* corner's perpendicular distance from the chord joining the first and last
\* point exceeds epsilon, the corner vertex is present in the output.
C17_CornerKept ==
    rdp.pc = "returned" =>
        \A m \in 1 .. Len(rdp.points) :
            (RightAngleAt(rdp.points, m) /\ CornerBeyond(rdp.points, m, rdp.eps2))
            => \E i \in 1 .. Len(rdp.result) : rdp.result[i] = rdp.points[m]

\* a corner between two legs, one of them with an intermediate point, was
\* kept at a positive tolerance and the intermediate point was dropped
C17_Witness ==
    /\ rdp.pc = "returned"
    /\ rdp.eps2 > 0
    /\ Len(rdp.points) >= 4
    /\ \E m \in 1 .. Len(rdp.points) :
         /\ RightAngleAt(rdp.points, m)
         /\ CornerBeyond(rdp.points, m, rdp.eps2)
         /\ rdp.result = <<rdp.points[1], rdp.points[m], rdp.points[Len(rdp.points)]>>

\* p lies within epsilon = eps2 / 2 of the chord from a to b: of the line
\* through a and b, or of the point a when b = a
WithinOfChord(p, a, b, eps2) ==
    LET d == <<b[1] - a[1], b[2] - a[2]>>
        w == <<a[1] - p[1], a[2] - p[2]>>
        n2 == d[1] * d[1] + d[2] * d[2]
        c == d[1] * w[2] - d[2] * w[1]
    IN  IF n2 = 0
        THEN 4 * (w[1] * w[1] + w[2] * w[2]) <= eps2 * eps2
        ELSE 4 * c * c <= eps2 * eps2 * n2

\* the points of ps at the indices of S, in order
Pick(ps, S) ==
    LET RECURSIVE From(_)
        From(i) == IF i > Len(ps) THEN <<>>
                   ELSE IF i \in S THEN <<ps[i]>> \o From(i + 1)
                   ELSE From(i + 1)
    IN  From(1)

\* C29: for a polyline of two or more points and epsilon >= 0 the output of
\* _rdp_simplify is a subsequence of the input, in order, that begins with the
\* first point and ends with the last, and every point dropped lies within
\* epsilon of the chord between the two retained points that enclose it.
C29_RdpEnvelope ==
    (rdp.pc = "returned" /\ Len(rdp.points) >= 2) =>
        LET ps == rdp.points
            n == Len(ps)
        IN  /\ rdp.eps2 >= 0
            /\ rdp.result[1] = ps[1]
            /\ rdp.result[Len(rdp.result)] = ps[n]
            /\ \E S \in SUBSET (1 .. n) :
                 /\ 1 \in S /\ n \in S
                 /\ rdp.result = Pick(ps, S)
                 /\ \A j \in (1 .. n) \ S :
                      LET a == CHOOSE i \in S : i < j /\ \A h \in S : h < j => h <= i
                          b == CHOOSE i \in S : i > j /\ \A h \in S : h > j => h >= i
                      IN  WithinOfChord(ps[j], ps[a], ps[b], rdp.eps2)

\* a polyline of MaxPts points lost one point that lies off the chord of its
\* neighbours, within the tolerance, and kept one that lies beyond it
C29_Witness ==
    /\ rdp.pc = "returned"
    /\ rdp.eps2 > 0
    /\ Len(rdp.points) = MaxPts
    /\ Len(rdp.result) = MaxPts - 1
    /\ \E j \in 2 .. (MaxPts - 1) :
         /\ rdp.result = Pick(rdp.points, (1 .. MaxPts) \ {j})
         /\ ~WithinOfChord(rdp.points[j], rdp.points[j - 1], rdp.points[j + 1], 0)
         /\ WithinOfChord(rdp.points[j], rdp.points[j - 1], rdp.points[j + 1], rdp.eps2)

(***************************************************************************)
(* terrain_layering.py: extract_contours, the contours kept                *)
(***************************************************************************)
\* raw_contours = [c for c in raw_contours if len(c) >= 10]
MinVertices == 10

\* vertices of the traced polylines: three corners of one pixel
Corner == {<<0, 0>>, <<1, 0>>, <<0, 1>>}

\* find_contours on the padded mask yields closed polylines (first vertex =
\* last vertex); n vertices over the corners
ClosedPolylines(n) == {c \in [1 .. n -> Corner] : c[1] = c[n]}

\* one polyline of raw_contours and simplify_eps = eps2 / 2; the polyline has
\* three vertices, one vertex less than the filter asks for, or just enough
InitFilter ==
    /\ \E n \in {3, MinVertices - 1, MinVertices} :
         \E c \in ClosedPolylines(n) : \E e \in 0 .. MaxEps2 :
            xc = [pc |-> "traced", raw |-> c, eps2 |-> e, out |-> <<>>]
    /\ gen = NoGen
    /\ genpc = "off"
    /\ levels = <<>>
    /\ grid = <<>>
    /\ traced = <<>>
    /\ rdp = NoRdp
    /\ ga = NoGa
    /\ loop = NoLoop
    /\ IdleDownloader

\* a plausible slip: only the second test, len(c) < 4, is applied
LongEnough_Four(c) == Len(c) >= 4

\* len(c) >= 10
LongEnough(c) == Len(c) >= MinVertices

\* what extract_contours appends to simplified for the polyline c
KeptOf(c, eps2) ==
    IF ~LongEnough(c) THEN <<>>
    ELSE IF Len(c) < 4 THEN <<>>
    ELSE LET s == RdpSimplify(c, eps2)
         IN  IF Len(s) >= 3 THEN <<s>> ELSE <<>>

\* extract_contours from the length filter on, and return simplified
FilterContour ==
    /\ xc.pc = "traced"
    /\ xc' = [xc EXCEPT !.out = KeptOf(xc.raw, xc.eps2), !.pc = "returned"]
    /\ UNCHANGED <<gen, genpc, levels, grid, traced, rdp, ga, loop, decodeVars, envVars,
                   tileVars, mainVars, cropVars>>

NextFilter == FilterContour

SpecFilter == InitFilter /\ [][NextFilter]_vars

\* every vertex of c lies within epsilon = eps2 / 2 of the first one
NearStart(c, eps2) ==
    \A i \in 1 .. Len(c) :
        4 * ((c[i][1] - c[1][1]) * (c[i][1] - c[1][1])
             + (c[i][2] - c[1][2]) * (c[i][2] - c[1][2])) <= eps2 * eps2

\* C27: every contour extract_contours returns comes from a traced polyline
\* of at least 10 vertices and has at least 3 points after simplification.  A
\* polyline of fewer than 10 vertices, and one that simplifies to fewer than 3
\* points, such as a closed polyline whose vertices all lie within epsilon of
\* its first vertex, is left out of the result; the call returns all the same.
C27_ContourFilter ==
    /\ xc.pc \in {"off", "traced", "returned"}
    /\ xc.pc = "returned" =>
          LET s == RdpSimplify(xc.raw, xc.eps2)
          IN  /\ Len(xc.out) <= 1
              /\ \A i \in 1 .. Len(xc.out) :
                   /\ Len(xc.raw) >= 10
                   /\ Len(xc.out[i]) >= 3
                   /\ xc.out[i] = s
              /\ Len(xc.raw) < 10 => xc.out = <<>>
              /\ Len(s) < 3 => xc.out = <<>>
              /\ (xc.raw[1] = xc.raw[Len(xc.raw)] /\ NearStart(xc.raw, xc.eps2))
                    => xc.out = <<>>
              /\ (Len(xc.raw) >= 10 /\ Len(s) >= 3) => xc.out # <<>>

\* a closed polyline of 10 vertices was kept with 3 or more points
C27_Witness ==
    /\ xc.pc = "returned"
    /\ Len(xc.raw) = 10
    /\ xc.raw[1] = xc.raw[10]
    /\ xc.eps2 > 0
    /\ Len(xc.out) = 1
    /\ Len(xc.out[1]) >= 3

(***************************************************************************)
(* terrain_layering.py: generate_all and generate_svg                      *)
(*                                                                         *)
(* A contour list is carried as "empty" or "contours"; the cache is keyed  *)
(* by the level, as contour_cache is.                                      *)
(***************************************************************************)
\* None, for next_level and next_next_level
NoLevel == 0 - 1

\* --interval: one hundredth of a metre, or one metre
GenIntervals == {1, Metre}

\* generators with at most MaxLayers levels; generate_all(colormap) is about
\* to be called in the terrain or in the gsi_topo / satellite branch
InitGen ==
    /\ \E iv \in GenIntervals, lo \in {-1, 0}, k \in 0 .. (MaxLayers - 1),
          given \in BOOLEAN, b \in {-1, 0, 1, MaxLayers}, topo \in BOOLEAN :
         /\ ~given => b = 0
         /\ gen = [min_elev |-> lo, max_elev |-> k * iv, interval |-> iv,
                   base_given |-> given, base_elevation |-> b * iv,
                   base_elev |-> 0]
         /\ ga = [NoGa EXCEPT !.pc = "idle", !.topo = topo]
    /\ genpc = "new"
    /\ levels = <<>>
    /\ grid = <<>>
    /\ traced = <<>>
    /\ rdp = NoRdp
    /\ loop = NoLoop
    /\ xc = NoXc
    /\ IdleDownloader

\* levels = self.get_levels(); the print of levels[0] and levels[-1] raises
\* IndexError on an empty list; contour_cache = {}
GenerateAll ==
    /\ genpc = "constructed"
    /\ ga.pc = "idle"
    /\ levels' = GetLevels(gen)
    /\ ga' = [ga EXCEPT !.pc = IF GetLevels(gen) = <<>> THEN "raised"
                               ELSE "precompute",
                        !.idx = 1]
    /\ UNCHANGED <<loop, xc, gen, genpc, grid, traced, rdp, decodeVars, envVars, tileVars,
                   mainVars, cropVars>>

\* one more extract_contours(lv) call is counted
CountExtract(extracts, lv) ==
    [l \in DOMAIN extracts \cup {lv} |->
        IF l = lv THEN (IF lv \in DOMAIN extracts THEN extracts[lv] + 1 ELSE 1)
        ELSE extracts[l]]

\* one iteration of the precompute loop:
\* contour_cache[lv] = self.extract_contours(lv, simplify_eps)
Precompute ==
    /\ ga.pc = "precompute"
    /\ ga.idx <= Len(levels)
    /\ \E c \in {"empty", "contours"} :
         ga' = [ga EXCEPT
                  !.cache = [l \in DOMAIN ga.cache \cup {levels[ga.idx]} |->
                                IF l = levels[ga.idx] THEN c ELSE ga.cache[l]],
                  !.extracts = CountExtract(ga.extracts, levels[ga.idx]),
                  !.idx = ga.idx + 1]
    /\ UNCHANGED <<loop, xc, gen, genpc, levels, grid, traced, rdp, decodeVars, envVars,
                   tileVars, mainVars, cropVars>>

\* the precompute loop is exhausted; the render loop starts
StartRender ==
    /\ ga.pc = "precompute"
    /\ ga.idx > Len(levels)
    /\ ga' = [ga EXCEPT !.pc = "render", !.idx = 1]
    /\ UNCHANGED <<loop, xc, gen, genpc, levels, grid, traced, rdp, decodeVars, envVars,
                   tileVars, mainVars, cropVars>>

\* levels[i] if i < len(levels) else None, with i the 0-based index
LevelOrNone(i) == IF i < Len(levels) THEN levels[i + 1] ELSE NoLevel

\* a plausible slip: generate_svg is called without contour_cache
InCache_Never(lv, contour_cache) == FALSE

\* contour_cache is not None and lv in contour_cache
InCache(lv, contour_cache) == lv \in DOMAIN contour_cache

\* a plausible slip: the clamp of the base to 0 is left out
IsBaseLayer_NoClamp(level, base_elev) == level <= base_elev + 1

\* is_base_layer = (level <= max(0.0, self.base_elev) + 0.01)
IsBaseLayer(level, base_elev) == level <= EffectiveBase(base_elev) + 1

\* the levels generate_svg asks _get_contours for: its own; when it has
\* contours, the next one, and outside the gsi_topo / satellite branch the
\* next-next one
Wanted(level, next, nnext) ==
    IF ga.cache[level] = "empty" THEN {level}
    ELSE {level} \cup (IF next = NoLevel THEN {} ELSE {next})
                 \cup (IF nnext = NoLevel \/ ga.topo THEN {} ELSE {nnext})

RECURSIVE CountAll(_, _)
CountAll(extracts, lvs) ==
    IF lvs = {} THEN extracts
    ELSE LET lv == CHOOSE l \in lvs : TRUE
         IN  CountAll(CountExtract(extracts, lv), lvs \ {lv})

\* one iteration of the render loop: generate_svg(level, ..., next_level,
\* next_next_level, contour_cache)
Render ==
    /\ ga.pc = "render"
    /\ ga.idx <= Len(levels)
    /\ LET level == levels[ga.idx]
           next == LevelOrNone(ga.idx)
           nnext == LevelOrNone(ga.idx + 1)
           misses == {lv \in Wanted(level, next, nnext) : ~InCache(lv, ga.cache)}
       IN  ga' = [ga EXCEPT
                    !.extracts = CountAll(ga.extracts, misses),
                    !.renders = Append(ga.renders,
                       [level |-> level, next_level |-> next,
                        next_next_level |-> nnext,
                        ok |-> ga.cache[level] # "empty",
                        is_base_layer |-> /\ ga.cache[level] # "empty"
                                          /\ IsBaseLayer(level, gen.base_elev),
                        wanted |-> Wanted(level, next, nnext),
                        extracted |-> misses]),
                    !.idx = ga.idx + 1]
    /\ UNCHANGED <<loop, xc, gen, genpc, levels, grid, traced, rdp, decodeVars, envVars,
                   tileVars, mainVars, cropVars>>

\* the render loop is exhausted; _write_guide and return
FinishAll ==
    /\ ga.pc = "render"
    /\ ga.idx > Len(levels)
    /\ ga' = [ga EXCEPT !.pc = "done"]
    /\ UNCHANGED <<loop, xc, gen, genpc, levels, grid, traced, rdp, decodeVars, envVars,
                   tileVars, mainVars, cropVars>>

NextGen ==
    Construct \/ GenerateAll \/ Precompute \/ StartRender \/ Render \/ FinishAll

SpecGen == InitGen /\ [][NextGen]_vars

\* the number of extract_contours calls made for the level at index i
Extractions(i) ==
    IF levels[i] \in DOMAIN ga.extracts THEN ga.extracts[levels[i]] ELSE 0

\* C18: in generate_all every level's contours are extracted exactly once and
\* all extractions complete before the first layer is rendered; rendering
\* the layer at index k takes the contours of levels k, k+1 and k+2 from the
\* cache without calling extract_contours again, and next / next-next are
\* None exactly when index k+1 / k+2 is past the end of the level sequence.
C18_CachedContours ==
    /\ \A i \in 1 .. Len(levels) : Extractions(i) <= 1
    /\ (ga.pc \in {"render", "done"} \/ Len(ga.renders) > 0) =>
          \A i \in 1 .. Len(levels) : Extractions(i) = 1
    /\ \A k \in 1 .. Len(ga.renders) :
          LET r == ga.renders[k]
              n == Len(levels)
          IN  /\ r.level = levels[k]
              /\ r.next_level = (IF k + 1 <= n THEN levels[k + 1] ELSE NoLevel)
              /\ r.next_next_level = (IF k + 2 <= n THEN levels[k + 2] ELSE NoLevel)
              /\ (r.next_level = NoLevel) <=> (k + 1 > n)
              /\ (r.next_next_level = NoLevel) <=> (k + 2 > n)
              /\ r.level \in r.wanted
              /\ r.wanted \subseteq {levels[j] : j \in k .. Min2(k + 2, n)}
              /\ r.extracted = {}
              /\ (r.ok /\ ~ga.topo) =>
                    r.wanted = {levels[j] : j \in k .. Min2(k + 2, n)}

\* generate_all went through MaxLayers levels, every layer was rendered with
\* contours, and the first layer looked up its own, the next and the
\* next-next contours
C18_Witness ==
    /\ ga.pc = "done"
    /\ Len(levels) = MaxLayers
    /\ Len(ga.renders) = MaxLayers
    /\ \A k \in 1 .. Len(ga.renders) : ga.renders[k].ok
    /\ Cardinality(ga.renders[1].wanted) = 3
    /\ ga.renders[MaxLayers].next_level = NoLevel

\* C19 as stated: the base-layer flag used when rendering a level is true iff
\* level <= effective base, effective base = max(0, base_elev); for every
\* level above the effective base the flag is false.
C19_BaseFlag ==
    \A k \in 1 .. Len(ga.renders) :
        ga.renders[k].ok =>
            (ga.renders[k].is_base_layer <=>
                ga.renders[k].level <= (IF gen.base_elev < 0 THEN 0 ELSE gen.base_elev))

\* C19, amended: the flag is true iff level <= effective base + 0.01 m; the
\* first level of get_levels is flagged, and a level above the effective
\* base is flagged only if it lies within 0.01 m of it, which takes an
\* interval of at most 0.01 m.
C19_BaseFlagTolerance ==
    \A k \in 1 .. Len(ga.renders) :
        LET r == ga.renders[k]
            base == IF gen.base_elev < 0 THEN 0 ELSE gen.base_elev
        IN  r.ok =>
              /\ r.is_base_layer <=> (r.level - base <= 1)
              /\ (k = 1) => r.is_base_layer
              /\ (r.is_base_layer /\ r.level > base) => gen.interval <= 1

\* the first layer, at effective base 0 under a negative base_elev, was
\* flagged and a layer one metre above it was not
C19_Witness ==
    /\ gen.base_elev < 0
    /\ gen.interval = Metre
    /\ Len(ga.renders) >= 2
    /\ ga.renders[1].ok /\ ga.renders[1].is_base_layer
    /\ ga.renders[1].level = 0
    /\ ga.renders[2].ok /\ ~ga.renders[2].is_base_layer

====
